---------------------------- MODULE Spec2Model ----------------------------
(***************************************************************************)
(* A model of conceptnet5/nodes.py: the construction of concept URIs from  *)
(* free text (standardize_text, standardized_concept_uri,                  *)
(* topic_to_concept, valid_concept_name), the retired entry point          *)
(* standardized_concept_name, and the linked-data view ld_node.            *)
(*                                                                         *)
(* Python strings are sequences of one-character strings.  Every function  *)
(* of the module is one action: it draws its arguments from a bounded set, *)
(* and leaves the call in op/args, its outcome in ret/exc and the values   *)
(* of its local variables in locals.  The functions are pure and keep no   *)
(* state between calls, so a behaviour is one call from the initial state. *)
(***************************************************************************)
EXTENDS Integers, Sequences, FiniteSets

VARIABLES op, args, ret, exc, locals

vars == <<op, args, ret, exc, locals>>

-----------------------------------------------------------------------------
(* Bounds of the model.                                                    *)

\* The longest text given to standardize_text / valid_concept_name,
\* counted in chunks of TextChunks.
MaxTextChunks == 4

\* The longest text given to the retired standardized_concept_name.
MaxNameChunks == 2

\* The longest primary text given to standardized_concept_uri, in chunks of
\* UriTextChunks, and the largest number of disambiguation hints.
MaxUriTextChunks == 2
MaxHints == 2

\* The longest topic given to topic_to_concept, in chunks of TopicChunks.
MaxTopicChunks == 6

\* The longest identifier given to ld_node, in chunks of NodeChunks.
MaxNodeChunks == 4

-----------------------------------------------------------------------------
(* Characters and the Python string operations the module uses.            *)

SPACE == " "
TAB == "\t"
UNDERSCORE == "_"

\* str.casefold / str.lower on the letters of the model.
CasePairs ==
    { <<"E", "e">>, <<"N", "n">>, <<"G", "g">>, <<"S", "s">>, <<"R", "r">> }

LowerCaseLetters ==
    { "a", "b", "c", "e", "f", "g", "h", "l", "m", "n", "o", "p", "r", "s",
      "t", "u", "w", "x", "y" }

UpperCaseLetters == { p[1] : p \in CasePairs }

\* CYRILLIC SMALL LETTER ES, which wordfreq transliterates to "s" for
\* Serbo-Croatian.
CYR_ES == "U+0441"

Whitespace == { SPACE, TAB }

Punctuation == { ",", "/", "(", ")", ":", "." }

lower_char(c) ==
    IF \E p \in CasePairs : p[1] = c
      THEN (CHOOSE p \in CasePairs : p[1] = c)[2]
      ELSE c

\* s.lower() / s.casefold()
lower(s) == [i \in 1..Len(s) |-> lower_char(s[i])]

\* s.replace(old, new) for one-character old and new
replace(s, old, new) == [i \in 1..Len(s) |-> IF s[i] = old THEN new ELSE s[i]]

\* s.startswith(prefix)
startswith(s, prefix) ==
    /\ Len(prefix) <= Len(s)
    /\ SubSeq(s, 1, Len(prefix)) = prefix

\* sep.join(pieces)
RECURSIVE join(_, _)
join(sep, pieces) ==
    IF pieces = <<>> THEN <<>>
    ELSE IF Len(pieces) = 1 THEN pieces[1]
    ELSE pieces[1] \o sep \o join(sep, Tail(pieces))

\* Python's None
None == << "<None>" >>

\* The value of ret while nothing has been returned.
NoValue == << "<no value>" >>

\* The value of exc while nothing has been raised.
NoException == [type |-> "none", message |-> <<>>]

\* All concatenations of at most k chunks of C.
RECURSIVE Concats(_, _)
Concats(C, k) ==
    IF k = 0 THEN { <<>> }
    ELSE LET P == Concats(C, k - 1)
         IN  P \cup { p \o c : p \in P, c \in C }

-----------------------------------------------------------------------------
(* The collaborators of nodes.py.                                          *)

\* wordfreq.simple_tokenize: the characters of a token.  The underscore is
\* a word character for the tokenizer (Unicode class Pc), which is why the
\* callers replace it by a space first.
IsWordChar(c) ==
    c \in LowerCaseLetters \cup UpperCaseLetters \cup { CYR_ES, UNDERSCORE }

RECURSIVE tokenize_from(_, _, _)
tokenize_from(s, cur, acc) ==
    IF s = <<>>
      THEN IF cur = <<>> THEN acc ELSE Append(acc, cur)
      ELSE IF IsWordChar(Head(s))
             THEN tokenize_from(Tail(s), Append(cur, lower_char(Head(s))), acc)
             ELSE tokenize_from(Tail(s), <<>>,
                                IF cur = <<>> THEN acc ELSE Append(acc, cur))

\* wordfreq.simple_tokenize(text): the maximal runs of word characters,
\* case-folded; whitespace and punctuation separate tokens and are dropped.
simple_tokenize(text) == tokenize_from(text, <<>>, <<>>)

\* conceptnet5.language.english: the stopword lists
STOPWORDS == { <<"t", "h", "e">>, <<"a">>, <<"a", "n">> }

DROP_FIRST == { <<"t", "o">> }

RECURSIVE drop_first(_)
drop_first(tokens) ==
    IF tokens # <<>> /\ Head(tokens) \in DROP_FIRST
      THEN drop_first(Tail(tokens))
      ELSE tokens

\* conceptnet5.language.english.english_filter(tokens): drop the stopwords,
\* then the leading "to"s; a text of nothing else is kept as it is.
english_filter(tokens) ==
    LET non_stopwords == SelectSeq(tokens, LAMBDA t : t \notin STOPWORDS)
        kept == drop_first(non_stopwords)
    IN  IF kept # <<>> THEN kept ELSE tokens

\* The values of the token_filter parameter: None, english_filter, and a
\* filter of a caller's own that drops every stopword and keeps nothing
\* back when all the tokens are stopwords.
NoFilter == "None"
EnglishFilter == "english_filter"
DropStopwords == "lambda tokens: [t for t in tokens if t not in STOPWORDS]"
TokenFilters == { NoFilter, EnglishFilter, DropStopwords }

\* token_filter(tokens)
apply_filter(token_filter, tokens) ==
    CASE token_filter = EnglishFilter -> english_filter(tokens)
      [] token_filter = DropStopwords ->
           SelectSeq(tokens, LAMBDA t : t \notin STOPWORDS)
      [] OTHER -> tokens

-----------------------------------------------------------------------------
(* standardize_text                                                        *)

\* standardize_text without line 64's replace('_', ' ')
standardize_text_NoReplace(text, token_filter) ==
    LET tokens == simple_tokenize(text)
        filtered == IF token_filter # NoFilter
                      THEN apply_filter(token_filter, tokens)
                      ELSE tokens
    IN  join(<<UNDERSCORE>>, filtered)

\* standardize_text joining with ' ' instead of '_'
standardize_text_JoinSpace(text, token_filter) ==
    LET tokens == simple_tokenize(replace(text, UNDERSCORE, SPACE))
        filtered == IF token_filter # NoFilter
                      THEN apply_filter(token_filter, tokens)
                      ELSE tokens
    IN  join(<<SPACE>>, filtered)

standardize_text(text, token_filter) ==
    LET tokens == simple_tokenize(replace(text, UNDERSCORE, SPACE))
        filtered == IF token_filter # NoFilter
                      THEN apply_filter(token_filter, tokens)
                      ELSE tokens
    IN  join(<<UNDERSCORE>>, filtered)

\* valid_concept_name testing the raw text instead of its standard form
valid_concept_name_RawText(text) == text # <<>>

\* valid_concept_name(text)
valid_concept_name(text) == standardize_text(text, NoFilter) # <<>>

-----------------------------------------------------------------------------
(* standardized_concept_name, retired                                      *)

\* The message of the NotImplementedError, word by word
RemovedMessage ==
    << "standardized_concept_name", "has", "been", "removed.",
       "Use", "standardize_text", "instead." >>

\* standardized_concept_name returning the standard form as it once did
standardized_concept_name_Returns(lang, text) ==
    [ret |-> standardize_text(text, NoFilter), exc |-> NoException]

\* standardized_concept_name(lang, text): the outcome of the call
standardized_concept_name(lang, text) ==
    [ret |-> NoValue,
     exc |-> [type |-> "NotImplementedError", message |-> RemovedMessage]]

\* normalized_concept_name = standardized_concept_name
RetiredNames == { "standardized_concept_name", "normalized_concept_name" }

-----------------------------------------------------------------------------
(* Language codes                                                          *)

en == <<"e", "n">>
sh == <<"s", "h">>
sr == <<"s", "r">>
fr == <<"f", "r">>

\* The language arguments of the model: codes, aliases, and their spellings
\* in upper case.
Langs == { en, <<"E", "N">>, <<"E", "n">>, sh, sr, <<"S", "R">>, fr }

\* conceptnet5.languages.LCODE_ALIASES: alias |-> canonical code
LCODE_ALIASES == { <<sr, sh>>, <<<<"h", "r">>, sh>> }

\* wordfreq.preprocess.preprocess_text(text, language): the normalization of
\* the language's script (Serbo-Croatian in Cyrillic is transliterated to
\* Latin letters), then case folding.
preprocess_text(text, language) ==
    lower(IF language = sh THEN replace(text, CYR_ES, "s") ELSE text)

\* conceptnet5.uri.concept_uri(lang, text, *more): the pieces of the path
\* /c/<lang>/<text>[/<more>...], in order.
concept_uri(lang, text, more) == << <<"c">>, lang, text >> \o more

-----------------------------------------------------------------------------
(* standardized_concept_uri                                                *)

\* Lines 122-124 without lang.lower()
resolved_language_NoLower(lang) ==
    IF \E p \in LCODE_ALIASES : p[1] = lang
      THEN (CHOOSE p \in LCODE_ALIASES : p[1] = lang)[2]
      ELSE lang

\* lang = lang.lower(); if lang in LCODE_ALIASES: lang = LCODE_ALIASES[lang]
resolved_language(lang) ==
    LET lang1 == lower(lang)
    IN  IF \E p \in LCODE_ALIASES : p[1] = lang1
          THEN (CHOOSE p \in LCODE_ALIASES : p[1] = lang1)[2]
          ELSE lang1

\* if lang == 'en': token_filter = english_filter; else: token_filter = None
select_token_filter(lang) == IF lang = en THEN EnglishFilter ELSE NoFilter

\* The list comprehension of lines 132-133 with "if item" for
\* "if item is not None": it drops the empty hint too.
standardized_hints_IfItem(more, token_filter) ==
    LET present == SelectSeq(more, LAMBDA item : item # None /\ item # <<>>)
    IN  [i \in 1..Len(present) |-> standardize_text(present[i], token_filter)]

\* [standardize_text(item, token_filter) for item in more if item is not None]
standardized_hints(more, token_filter) ==
    LET present == SelectSeq(more, LAMBDA item : item # None)
    IN  [i \in 1..Len(present) |-> standardize_text(present[i], token_filter)]

\* The local variables of standardized_concept_uri(lang, text, *more) when
\* it returns, and the value it returns.
standardized_concept_uri_frame(lang, text, more) ==
    LET lang1 == resolved_language(lang)
        token_filter == select_token_filter(lang1)
        text1 == preprocess_text(replace(text, UNDERSCORE, SPACE), lang1)
        norm_text == standardize_text(text1, token_filter)
        more_text == standardized_hints(more, token_filter)
    IN  [lang |-> lang1, token_filter |-> token_filter, text |-> text1,
         norm_text |-> norm_text, more_text |-> more_text,
         ret |-> concept_uri(lang1, norm_text, more_text)]

\* standardized_concept_uri(lang, text, *more), also exported as
\* normalized_concept_uri and standardize_concept_uri
standardized_concept_uri(lang, text, more) ==
    standardized_concept_uri_frame(lang, text, more).ret

-----------------------------------------------------------------------------
(* topic_to_concept                                                        *)

\* The number of characters of s from position `from` on that come before
\* the first `stop`: the longest match of [^stop]* there.
RECURSIVE run_length(_, _, _)
run_length(s, from, stop) ==
    IF from > Len(s) \/ s[from] = stop THEN 0
    ELSE 1 + run_length(s, from + 1, stop)

Max(S) == CHOOSE x \in S : \A y \in S : y <= x

NoMatch == [matched |-> FALSE, group1 |-> <<>>, group2 |-> <<>>]

\* re.match with the pattern r'([^(]+)\(([^)]+)\)', the space left out
re_match_NoSpace(topic) ==
    LET longest1 == run_length(topic, 1, "(")
        ok(n, k) ==
            /\ n + 2 + k <= Len(topic)
            /\ topic[n + 1] = "("
            /\ k <= run_length(topic, n + 2, ")")
            /\ topic[n + 2 + k] = ")"
        lengths1 == { n \in 1..longest1 : \E k \in 1..Len(topic) : ok(n, k) }
    IN  IF lengths1 = {} THEN NoMatch
        ELSE LET n == Max(lengths1)
                 k == Max({ j \in 1..Len(topic) : ok(n, j) })
             IN  [matched |-> TRUE,
                  group1 |-> SubSeq(topic, 1, n),
                  group2 |-> SubSeq(topic, n + 2, n + 1 + k)]

\* re.match(r'([^(]+) \(([^)]+)\)', topic): the match starts at the first
\* character and need not reach the last.  Both groups are greedy: the
\* matcher takes the longest group 1 for which the rest of the pattern
\* matches, then the longest group 2.
re_match(topic) ==
    LET longest1 == run_length(topic, 1, "(")
        ok(n, k) ==
            /\ n + 3 + k <= Len(topic)
            /\ topic[n + 1] = SPACE
            /\ topic[n + 2] = "("
            /\ k <= run_length(topic, n + 3, ")")
            /\ topic[n + 3 + k] = ")"
        lengths1 == { n \in 1..longest1 : \E k \in 1..Len(topic) : ok(n, k) }
    IN  IF lengths1 = {} THEN NoMatch
        ELSE LET n == Max(lengths1)
                 k == Max({ j \in 1..Len(topic) : ok(n, j) })
             IN  [matched |-> TRUE,
                  group1 |-> SubSeq(topic, 1, n),
                  group2 |-> SubSeq(topic, n + 3, n + 2 + k)]

\* topic_to_concept passing the hints as 'wp', 'n'
topic_to_concept_frame_HintsSwapped(language, topic) ==
    LET topic1 == replace(topic, UNDERSCORE, SPACE)
        match == re_match(topic1)
    IN  [topic |-> topic1, match |-> match,
         ret |-> IF ~match.matched
                   THEN standardized_concept_uri(language, topic1, <<>>)
                   ELSE standardized_concept_uri(language, match.group1,
                            << <<"w", "p">>, <<"n">>, match.group2 >>)]

\* The local variables of topic_to_concept(language, topic) when it
\* returns, and the value it returns.
topic_to_concept_frame(language, topic) ==
    LET topic1 == replace(topic, UNDERSCORE, SPACE)
        match == re_match(topic1)
    IN  [topic |-> topic1, match |-> match,
         ret |-> IF ~match.matched
                   THEN standardized_concept_uri(language, topic1, <<>>)
                   ELSE standardized_concept_uri(language, match.group1,
                            << <<"n">>, <<"w", "p">>, match.group2 >>)]

topic_to_concept(language, topic) == topic_to_concept_frame(language, topic).ret

-----------------------------------------------------------------------------
(* ld_node                                                                 *)

SLASH == "/"

\* s.lstrip(c)
RECURSIVE lstrip(_, _)
lstrip(s, c) == IF s # <<>> /\ Head(s) = c THEN lstrip(Tail(s), c) ELSE s

\* The place of the first c in s, or 0: s.find(c) + 1
find(s, c) ==
    IF \E i \in 1..Len(s) : s[i] = c
      THEN CHOOSE i \in 1..Len(s) : s[i] = c /\ \A j \in 1..(i - 1) : s[j] # c
      ELSE 0

\* s.split(sep)
RECURSIVE split(_, _)
split(s, sep) ==
    LET i == find(s, sep)
    IN  IF i = 0 THEN << s >>
        ELSE << SubSeq(s, 1, i - 1) >> \o split(SubSeq(s, i + 1, Len(s)), sep)

\* conceptnet5.uri.is_term(uri)
is_term(uri) ==
    \/ startswith(uri, <<SLASH, "c", SLASH>>)
    \/ startswith(uri, <<SLASH, "x", SLASH>>)

\* conceptnet5.uri.split_uri(uri): the slash-delimited pieces of a URI
split_uri(uri) ==
    IF ~startswith(uri, <<SLASH>>) THEN << uri >>
    ELSE LET uri2 == lstrip(uri, SLASH)
         IN  IF uri2 = <<>> THEN <<>> ELSE split(uri2, SLASH)

\* conceptnet5.uri.join_uri(*pieces)
join_uri(pieces) == <<SLASH>> \o join(<<SLASH>>, pieces)

\* conceptnet5.uri.get_uri_language(uri), of a term
get_uri_language(uri) == split_uri(uri)[2]

\* conceptnet5.uri.uri_prefix(uri), of a term: its first three pieces
uri_prefix(uri) ==
    LET pieces == split_uri(uri)
    IN  join_uri(SubSeq(pieces, 1, IF Len(pieces) < 3 THEN Len(pieces) ELSE 3))

\* conceptnet5.uri.uri_to_label(uri): the text of the last piece
uri_to_label(uri) ==
    LET pieces == split(uri, SLASH)
    IN  replace(pieces[Len(pieces)], UNDERSCORE, SPACE)

\* The characters of a URL scheme (urllib.parse.scheme_chars)
SchemeChars == LowerCaseLetters \cup UpperCaseLetters \cup { "." }

\* urllib.parse.urlparse(uri).netloc: past the scheme and its ":", what
\* follows "//" up to the next "/".
netloc(uri) ==
    LET colon == find(uri, ":")
        has_scheme ==
            /\ colon > 1
            /\ uri[1] \in LowerCaseLetters \cup UpperCaseLetters
            /\ \A i \in 1..(colon - 1) : uri[i] \in SchemeChars
        url == IF has_scheme THEN SubSeq(uri, colon + 1, Len(uri)) ELSE uri
    IN  IF startswith(url, <<SLASH, SLASH>>)
          THEN LET rest == SubSeq(url, 3, Len(url))
                   stop == find(rest, SLASH)
               IN  IF stop = 0 THEN rest ELSE SubSeq(rest, 1, stop - 1)
          ELSE <<>>

sw_opencyc_org ==
    <<"s", "w", ".", "o", "p", "e", "n", "c", "y", "c", ".", "o", "r", "g">>

umbel_org == <<"u", "m", "b", "e", "l", ".", "o", "r", "g">>

\* {'sw.opencyc.org', 'umbel.org'}
UnavailableSites == { sw_opencyc_org, umbel_org }

\* ld[key] = value
set_item(ld, key, value) ==
    [k \in DOMAIN ld \cup { key } |-> IF k = key THEN value ELSE ld[k]]

\* The branch of ld_node for a term
term_fields(ld, uri) ==
    LET pieces == split_uri(uri)
        ld1 == set_item(ld, "language", get_uri_language(uri))
        ld2 == IF Len(pieces) > 3
                 THEN set_item(ld1, "sense_label",
                               join(<<SLASH>>, SubSeq(pieces, 4, Len(pieces))))
                 ELSE ld1
        ld3 == set_item(ld2, "term", uri_prefix(uri))
    IN  set_item(ld3, "@type", "Node")

\* The branch of ld_node for an external URL
url_fields(ld, uri) ==
    LET domain == netloc(uri)
        ld1 == set_item(ld, "site", domain)
        ld2 == set_item(ld1, "term", uri)
        ld3 == set_item(ld2, "site_available", domain \notin UnavailableSites)
    IN  set_item(ld3, "@type", "Node")

\* ld_node(uri, label=None)
ld_node(uri, label) ==
    LET label1 == IF label = None THEN uri_to_label(uri) ELSE label
        ld == [k \in { "@id", "label" } |-> IF k = "@id" THEN uri ELSE label1]
    IN  IF is_term(uri) THEN term_fields(ld, uri)
        ELSE IF startswith(uri, <<"h", "t", "t", "p">>) THEN url_fields(ld, uri)
        ELSE IF startswith(uri, <<SLASH, "r", SLASH>>)
               THEN set_item(ld, "@type", "Relation")
        ELSE ld

-----------------------------------------------------------------------------
(* The calls the model makes.                                              *)

TextChunks ==
    { <<"a">>, <<"n">>, <<"t", "h", "e">>, <<"t", "o">>, <<"G">>,
      <<SPACE>>, <<TAB>>, <<UNDERSCORE>>, <<",">> }

Texts == Concats(TextChunks, MaxTextChunks)

NameTexts == Concats(TextChunks, MaxNameChunks)

UriTextChunks == { <<"a">>, <<"G">>, <<SPACE>>, <<UNDERSCORE>>, <<CYR_ES>> }

UriTexts == Concats(UriTextChunks, MaxUriTextChunks)

\* The disambiguation hints of the model: no hint, a part of speech, a
\* phrase with a stopword, punctuation only, the empty string.
HintValues == { None, <<"n">>, <<"a", SPACE, "n">>, <<",">>, <<>> }

RECURSIVE SeqsUpTo(_, _)
SeqsUpTo(S, k) ==
    IF k = 0 THEN { <<>> }
    ELSE LET P == SeqsUpTo(S, k - 1)
         IN  P \cup { Append(p, x) : p \in { q \in P : Len(q) = k - 1 }, x \in S }

Hints == SeqsUpTo(HintValues, MaxHints)

TopicChunks == { <<"a">>, <<SPACE>>, <<UNDERSCORE>>, <<"(">>, <<")">> }

Topics == Concats(TopicChunks, MaxTopicChunks)

TopicLangs == { en, sr }

NodeChunks ==
    { <<SLASH>>, <<SLASH, "c">>, <<SLASH, "x">>, <<SLASH, "r">>,
      <<SLASH, "e", "n">>, <<"h", "t", "t", "p">>, <<"s">>,
      <<":", SLASH, SLASH>>, umbel_org, sw_opencyc_org }

NodeUris == Concats(NodeChunks, MaxNodeChunks)

\* The label arguments of the model: none given, and one given
NodeLabels == { None, <<"a", SPACE, "n">> }

NoLocals == [none |-> TRUE]

Init ==
    /\ op = "none"
    /\ args = [none |-> TRUE]
    /\ ret = NoValue
    /\ exc = NoException
    /\ locals = NoLocals

StandardizeText ==
    /\ op = "none"
    /\ \E text \in Texts, token_filter \in TokenFilters :
        /\ op' = "standardize_text"
        /\ args' = [text |-> text, token_filter |-> token_filter]
        /\ ret' = standardize_text(text, token_filter)
        /\ exc' = NoException
        /\ locals' = NoLocals

ValidConceptName ==
    /\ op = "none"
    /\ \E text \in Texts :
        /\ op' = "valid_concept_name"
        /\ args' = [text |-> text]
        /\ ret' = valid_concept_name(text)
        /\ exc' = NoException
        /\ locals' = NoLocals

StandardizedConceptName ==
    /\ op = "none"
    /\ \E name \in RetiredNames, lang \in Langs, text \in NameTexts :
        LET outcome == standardized_concept_name(lang, text)
        IN  /\ op' = name
            /\ args' = [lang |-> lang, text |-> text]
            /\ ret' = outcome.ret
            /\ exc' = outcome.exc
            /\ locals' = NoLocals

NextText == StandardizeText \/ ValidConceptName \/ StandardizedConceptName

SpecText == Init /\ [][NextText]_vars

StandardizedConceptUri ==
    /\ op = "none"
    /\ \E lang \in Langs, text \in UriTexts, more \in Hints :
        LET frame == standardized_concept_uri_frame(lang, text, more)
        IN  /\ op' = "standardized_concept_uri"
            /\ args' = [lang |-> lang, text |-> text, more |-> more]
            /\ ret' = frame.ret
            /\ exc' = NoException
            /\ locals' = [lang |-> frame.lang,
                          token_filter |-> frame.token_filter,
                          text |-> frame.text]

NextUri == StandardizedConceptUri

SpecUri == Init /\ [][NextUri]_vars

-----------------------------------------------------------------------------
(* Properties of standardize_text, valid_concept_name and the retired      *)
(* entry point.                                                            *)

Last(s) == s[Len(s)]

\* The tokens that survive tokenization and filtering
SurvivingTokens(text, token_filter) ==
    apply_filter(token_filter, simple_tokenize(replace(text, UNDERSCORE, SPACE)))

\* C1: whatever the text and the token filter, the result of
\* standardize_text holds no whitespace, neither starts nor ends with an
\* underscore, holds no two underscores in a row, and is empty exactly when
\* no token survives tokenization and filtering.
C1_StandardForm ==
    op = "standardize_text" =>
        /\ \A i \in 1..Len(ret) : ret[i] \notin Whitespace
        /\ ret # <<>> => ret[1] # UNDERSCORE /\ Last(ret) # UNDERSCORE
        /\ \A i \in 1..(Len(ret) - 1) :
               ~(ret[i] = UNDERSCORE /\ ret[i + 1] = UNDERSCORE)
        /\ (ret = <<>>) <=>
               (SurvivingTokens(args.text, args.token_filter) = <<>>)

\* A text that starts with an underscore and holds whitespace, filtered for
\* English, of which two tokens survive.
C1_Witness ==
    /\ op = "standardize_text"
    /\ args.token_filter = EnglishFilter
    /\ args.text # <<>>
    /\ args.text[1] = UNDERSCORE
    /\ \E i \in 1..Len(args.text) : args.text[i] \in Whitespace
    /\ Len(SurvivingTokens(args.text, args.token_filter)) = 2
    /\ \E i \in 1..Len(ret) : ret[i] = UNDERSCORE

\* C2: valid_concept_name(t) is true exactly when standardize_text(t) with
\* no token filter is not empty; a text of stopwords only is valid, a text
\* of punctuation, whitespace and underscores only is not.
C2_ValidIffNonEmpty ==
    op = "valid_concept_name" =>
        LET tokens == simple_tokenize(replace(args.text, UNDERSCORE, SPACE))
        IN  /\ ret = (standardize_text(args.text, NoFilter) # <<>>)
            /\ ( /\ tokens # <<>>
                 /\ \A i \in 1..Len(tokens) : tokens[i] \in STOPWORDS ) =>
                   ret = TRUE
            /\ ( \A i \in 1..Len(args.text) :
                     args.text[i] \in
                         Punctuation \cup Whitespace \cup { UNDERSCORE } ) =>
                   ret = FALSE

\* valid_concept_name('the') is True.
C2_Witness ==
    /\ op = "valid_concept_name"
    /\ args.text = <<"t", "h", "e">>
    /\ ret = TRUE

\* The words of the message that name the replacement
NamesReplacement(message, replacement) ==
    \E i \in 1..(Len(message) - 1) :
        message[i] = "Use" /\ message[i + 1] = replacement

\* C9: standardized_concept_name and its alias normalized_concept_name fail
\* on every call, with an error that says the function was removed and
\* names standardize_text as its replacement; they return no value.
C9_RetiredAlwaysFails ==
    op \in RetiredNames =>
        /\ exc.type = "NotImplementedError"
        /\ \E i \in 1..Len(exc.message) : exc.message[i] = "removed."
        /\ NamesReplacement(exc.message, "standardize_text")
        /\ ret = NoValue

\* The alias was called with a text that has a standard form.
C9_Witness ==
    /\ op = "normalized_concept_name"
    /\ args.lang = en
    /\ standardize_text(args.text, NoFilter) # <<>>
    /\ exc.type = "NotImplementedError"

\* The standard form: lower-case letters in runs joined by one underscore
IsStandardized(s) ==
    /\ \A i \in 1..Len(s) : s[i] \in LowerCaseLetters \cup { UNDERSCORE }
    /\ s # <<>> => s[1] # UNDERSCORE /\ Last(s) # UNDERSCORE
    /\ \A i \in 1..(Len(s) - 1) :
           ~(s[i] = UNDERSCORE /\ s[i + 1] = UNDERSCORE)

\* C10: with no filter, standardize_text returns a string that is already
\* in standard form unchanged, and so standardizing its own result changes
\* nothing.
C10_Idempotent ==
    (op = "standardize_text" /\ args.token_filter = NoFilter) =>
        /\ IsStandardized(args.text) => ret = args.text
        /\ standardize_text(ret, NoFilter) = ret

\* A standard form of several tokens was standardized again.
C10_Witness ==
    /\ op = "standardize_text"
    /\ args.token_filter = NoFilter
    /\ IsStandardized(args.text)
    /\ \E i \in 1..Len(args.text) : args.text[i] = UNDERSCORE
    /\ ret = args.text

TopicToConcept ==
    /\ op = "none"
    /\ \E language \in TopicLangs, topic \in Topics :
        LET frame == topic_to_concept_frame(language, topic)
        IN  /\ op' = "topic_to_concept"
            /\ args' = [language |-> language, topic |-> topic]
            /\ ret' = frame.ret
            /\ exc' = NoException
            /\ locals' = [topic |-> frame.topic,
                          matched |-> frame.match.matched,
                          group1 |-> frame.match.group1,
                          group2 |-> frame.match.group2]

NextTopic == TopicToConcept

SpecTopic == Init /\ [][NextTopic]_vars

LdNode ==
    /\ op = "none"
    /\ \E uri \in NodeUris, label \in NodeLabels :
        /\ op' = "ld_node"
        /\ args' = [uri |-> uri, label |-> label]
        /\ ret' = ld_node(uri, label)
        /\ exc' = NoException
        /\ locals' = NoLocals

NextNode == LdNode

SpecNode == Init /\ [][NextNode]_vars

Next ==
    \/ StandardizeText
    \/ ValidConceptName
    \/ StandardizedConceptName
    \/ StandardizedConceptUri
    \/ TopicToConcept
    \/ LdNode

Spec == Init /\ [][Next]_vars

-----------------------------------------------------------------------------
(* Properties of topic_to_concept.                                         *)

\* The ways to read t as Title, a space, "(", Disambiguation, ")" and any
\* rest: <<i, j>> when the title is the first i characters and holds no
\* "(", and the disambiguation is the j characters after " (" and holds no
\* ")".
TitleSplits(t) ==
    { sp \in (1..Len(t)) \X (1..Len(t)) :
        LET i == sp[1]
            j == sp[2]
        IN  /\ i + 3 + j <= Len(t)
            /\ \A x \in 1..i : t[x] # "("
            /\ t[i + 1] = SPACE
            /\ t[i + 2] = "("
            /\ \A x \in (i + 3)..(i + 2 + j) : t[x] # ")"
            /\ t[i + 3 + j] = ")" }

\* C5: topic_to_concept replaces the underscores of the topic by spaces;
\* a topic of the form Title (Disambiguation) then gives
\* standardized_concept_uri(language, Title, 'n', 'wp', Disambiguation),
\* the hints in that order, and any other topic gives
\* standardized_concept_uri(language, topic) with no hint.
C5_TopicDelegation ==
    op = "topic_to_concept" =>
        LET t == replace(args.topic, UNDERSCORE, SPACE)
            splits == TitleSplits(t)
        IN  IF splits = {}
              THEN /\ ret = standardized_concept_uri(args.language, t, <<>>)
                   /\ Len(ret) = 3
              ELSE /\ \A sp \in splits :
                        ret = standardized_concept_uri(args.language,
                                  SubSeq(t, 1, sp[1]),
                                  << <<"n">>, <<"w", "p">>,
                                     SubSeq(t, sp[1] + 3, sp[1] + 2 + sp[2]) >>)
                   /\ Len(ret) = 6
                   /\ ret[4] = <<"n">>
                   /\ ret[5] = <<"w", "p">>

\* The topic "a_(a)" in English: the underscore is read as a space and the
\* path is c, en, a, n, wp, a.
C5_Witness ==
    /\ op = "topic_to_concept"
    /\ args.language = en
    /\ args.topic = <<"a", UNDERSCORE, "(", "a", ")">>
    /\ locals.matched
    /\ ret = << <<"c">>, en, <<"a">>,
                <<"n">>, <<"w", "p">>, <<"a">> >>

\* The place of the first "(" of t, or 0
FirstParen(t) ==
    IF \E x \in 1..Len(t) : t[x] = "("
      THEN CHOOSE x \in 1..Len(t) :
               t[x] = "(" /\ \A y \in 1..(x - 1) : t[y] # "("
      ELSE 0

\* The title and the first "(" of t are separated by no space at all.
ZeroSpaces(t) ==
    LET p == FirstParen(t) IN p >= 2 /\ t[p - 1] # SPACE

\* The title and the first "(" of t are separated by two spaces or more.
TwoSpacesOrMore(t) ==
    LET p == FirstParen(t)
    IN  /\ p >= 4
        /\ t[p - 1] = SPACE
        /\ t[p - 2] = SPACE
        /\ \E x \in 1..(p - 3) : t[x] # SPACE

\* After the first "(" of t come at least one character other than ")" and
\* then a ")".
ParentheticalClosed(t) ==
    LET p == FirstParen(t)
    IN  /\ p >= 1
        /\ p + 2 <= Len(t)
        /\ t[p + 1] # ")"
        /\ \E x \in (p + 2)..Len(t) : t[x] = ")"

\* C6 as claimed: a topic is taken as disambiguated only when exactly one
\* space separates the title from the parenthesis: with no space, or with
\* two or more, it is not matched, and group 1 never ends with a space.
C6_ExactlyOneSpace ==
    op = "topic_to_concept" =>
        /\ (ZeroSpaces(locals.topic) \/ TwoSpacesOrMore(locals.topic)) =>
               ~locals.matched
        /\ locals.matched => Last(locals.group1) # SPACE

\* C6 as amended: a topic is taken as disambiguated exactly when its first
\* "(" comes right after a space that at least one character precedes, and
\* is followed by one or more characters other than ")" and then a ")".
\* Group 1 is all that precedes that space.  So a topic with no space
\* before the parenthesis is not matched, and a topic with two spaces or
\* more is matched like any other, group 1 keeping all the separating
\* spaces but the last.
C6_SpaceBeforeParen ==
    op = "topic_to_concept" =>
        LET t == locals.topic
            p == FirstParen(t)
        IN  /\ locals.matched <=>
                   (p >= 3 /\ t[p - 1] = SPACE /\ ParentheticalClosed(t))
            /\ locals.matched => locals.group1 = SubSeq(t, 1, p - 2)
            /\ ZeroSpaces(t) => ~locals.matched
            /\ (TwoSpacesOrMore(t) /\ ParentheticalClosed(t)) =>
                   (locals.matched /\ Last(locals.group1) = SPACE)

\* The topic "a  (a)", two spaces before the parenthesis: matched, with
\* group 1 "a " and the same path as "a (a)".
C6_Witness ==
    /\ op = "topic_to_concept"
    /\ args.topic = <<"a", SPACE, SPACE, "(", "a", ")">>
    /\ locals.matched
    /\ locals.group1 = <<"a", SPACE>>
    /\ ret = topic_to_concept(args.language, <<"a", SPACE, "(", "a", ")">>)

-----------------------------------------------------------------------------
(* Properties of standardized_concept_uri.                                 *)

\* The canonical code of a language argument: its lower-case spelling, or
\* the code that spelling is an alias of.
CanonicalLanguage(lang) ==
    LET code == lower(lang)
    IN  IF code \in { p[1] : p \in LCODE_ALIASES }
          THEN CHOOSE c \in { p[2] : p \in LCODE_ALIASES } :
                   <<code, c>> \in LCODE_ALIASES
          ELSE code

\* The hints of a call that are not None, in call order
PresentHints(more) == SelectSeq(more, LAMBDA item : item # None)

\* C3: the path handed to concept_uri is c, the resolved language and the
\* standardized primary text, followed by exactly one segment per hint that
\* is not None, in call order; a hint whose standard form is empty still
\* gives a segment (an empty one) at its place.
C3_SegmentPerHint ==
    op = "standardized_concept_uri" =>
        LET present == PresentHints(args.more)
        IN  /\ Len(ret) =
                   3 + Cardinality({ i \in 1..Len(args.more) : args.more[i] # None })
            /\ ret[1] = <<"c">>
            /\ ret[2] = CanonicalLanguage(args.lang)
            /\ ret[3] = standardize_text(locals.text, locals.token_filter)
            /\ \A j \in 1..Len(present) :
                   ret[3 + j] = standardize_text(present[j], locals.token_filter)

\* A call whose first hint is None and whose second hint is punctuation
\* only: the path has one, empty, segment after the primary text.
C3_Witness ==
    /\ op = "standardized_concept_uri"
    /\ args.more = << None, <<",">> >>
    /\ Len(ret) = 4
    /\ ret[4] = <<>>
    /\ ret[3] # <<>>

\* C4: the hints skip stopword removal: in every language, English too,
\* the segment of a hint is its tokens joined by underscores, with no
\* stopword filter applied.
C4_HintsKeepStopwords ==
    op = "standardized_concept_uri" =>
        LET present == PresentHints(args.more)
        IN  \A j \in 1..Len(present) :
                /\ 3 + j <= Len(ret)
                /\ ret[3 + j] = standardize_text(present[j], NoFilter)

\* C7: the language is put in lower case and resolved through the aliases
\* before any use: the English filter is chosen exactly when the resolved
\* language is en, and two language arguments with the same canonical code
\* give the same identifier for the same text and hints.
C7_LanguageResolvedFirst ==
    op = "standardized_concept_uri" =>
        /\ (locals.token_filter = EnglishFilter) <=>
               (CanonicalLanguage(args.lang) = en)
        /\ locals.lang = CanonicalLanguage(args.lang)
        /\ locals.text =
               preprocess_text(replace(args.text, UNDERSCORE, SPACE),
                               CanonicalLanguage(args.lang))
        /\ \A lang2 \in Langs :
               CanonicalLanguage(lang2) = CanonicalLanguage(args.lang) =>
                   standardized_concept_uri(lang2, args.text, args.more) = ret

\* The alias SR, in upper case, of Serbo-Croatian with a Cyrillic text: the
\* path is that of sh, transliterated.
C7_Witness ==
    /\ op = "standardized_concept_uri"
    /\ args.lang = <<"S", "R">>
    /\ args.text = <<CYR_ES>>
    /\ ret[2] = sh
    /\ ret[3] = <<"s">>
    /\ standardized_concept_uri(sh, args.text, args.more) = ret

-----------------------------------------------------------------------------
(* Properties of ld_node.                                                  *)

\* The four shapes of an identifier, told apart by `is_url`, the test for an
\* external URL, and the keys and the @type that ld_node must then give.
NodeShape(uri, is_url) ==
    IF is_term(uri) THEN "Term"
    ELSE IF is_url THEN "ExternalUrl"
    ELSE IF startswith(uri, <<SLASH, "r", SLASH>>) THEN "Relation"
    ELSE "Other"

ShapeKeys(shape, uri) ==
    CASE shape = "Term" ->
           { "@id", "label", "language", "term", "@type" } \cup
           (IF Len(split_uri(uri)) > 3 THEN { "sense_label" } ELSE {})
      [] shape = "ExternalUrl" ->
           { "@id", "label", "site", "term", "site_available", "@type" }
      [] shape = "Relation" -> { "@id", "label", "@type" }
      [] OTHER -> { "@id", "label" }

ShapeType(shape) ==
    CASE shape \in { "Term", "ExternalUrl" } -> "Node"
      [] shape = "Relation" -> "Relation"
      [] OTHER -> "none"

HasShape(ld, shape, uri) ==
    /\ DOMAIN ld = ShapeKeys(shape, uri)
    /\ ("@type" \in DOMAIN ld) => ld["@type"] = ShapeType(shape)
    /\ ("@type" \in DOMAIN ld) <=> (shape # "Other")

\* At most one of the three tests of a shape holds of the identifier.
ShapesExclusive(uri, is_url) ==
    Cardinality({ t \in { "term", "url", "relation" } :
                    \/ t = "term" /\ is_term(uri)
                    \/ t = "url" /\ is_url
                    \/ t = "relation" /\ startswith(uri, <<SLASH, "r", SLASH>>) })
        <= 1

\* The identifier begins with the scheme of an HTTP or HTTPS URL.
BeginsWithHttpScheme(uri) ==
    \/ startswith(uri, <<"h", "t", "t", "p", ":", SLASH, SLASH>>)
    \/ startswith(uri, <<"h", "t", "t", "p", "s", ":", SLASH, SLASH>>)

\* C8: the keys of ld_node's mapping are fixed by one of four exclusive
\* shapes: a term gives @id, label, language, term, @type = Node
\* and sense_label exactly when it has more than three pieces; an
\* identifier that begins with an HTTP(S) scheme gives @id, label, site,
\* term, site_available, @type = Node; one that begins with /r/ gives @id,
\* label, @type = Relation; any other gives @id and label only.
C8_FourShapesByScheme ==
    op = "ld_node" =>
        /\ ShapesExclusive(args.uri, BeginsWithHttpScheme(args.uri))
        /\ HasShape(ret, NodeShape(args.uri, BeginsWithHttpScheme(args.uri)),
                    args.uri)

\* What ld_node does: the same four shapes, the external URL being any
\* identifier that is not a term and begins with the four characters
\* "http", whether or not the "://" of a scheme follows.
FourShapesByPrefix ==
    op = "ld_node" =>
        LET is_url == startswith(args.uri, <<"h", "t", "t", "p">>)
        IN  /\ ShapesExclusive(args.uri, is_url)
            /\ HasShape(ret, NodeShape(args.uri, is_url), args.uri)
            /\ ret["@id"] = args.uri
            /\ args.label # None => ret["label"] = args.label

=============================================================================
